---- MODULE Spec2Model ----
(***************************************************************************)
(* A model of the cesium-geojson repository: the upload API (validate,     *)
(* persist, retrieve GeoJSON documents) and the viewer's App component.    *)
(*                                                                         *)
(* JSON values are tagged records; a JSON text is a sequence of tokens, so *)
(* that JSON.stringify and JSON.parse are real conversions and a partly    *)
(* written file is a proper prefix of a text.  File paths are sequences of *)
(* path components.                                                        *)
(***************************************************************************)
EXTENDS Integers, Sequences, FiniteSets, TLC

(***************************************************************************)
(* Bounds of the model.                                                    *)
(***************************************************************************)
\* number of distinct tokens the identifier generator can hand out
MaxIds == 2
\* number of tokens one write(2) call of writeFile transfers at most
ChunkLen == 24
\* length of the longest features array handed to the validator
MaxFeatures == 2

(***************************************************************************)
(* JSON values.                                                            *)
(***************************************************************************)
JNull == [k |-> "null"]
JBool(b) == [k |-> "bool", b |-> b]
JNum(n) == [k |-> "number", n |-> n]
JStr(s) == [k |-> "string", s |-> s]
JArr(a) == [k |-> "array", a |-> a]
JObj(m) == [k |-> "object", m |-> m]

\* the JavaScript value undefined; also an absent member
Undefined == [k |-> "undefined"]

EmptyMap == [x \in {} |-> JNull]

\* the object m with member key set to val (a later duplicate key wins)
WithMember(m, key, val) ==
  [x \in (DOMAIN m) \cup {key} |-> IF x = key THEN val ELSE m[x]]

\* the order in which the members of an object are written out
KeyOrder ==
  <<"type", "geometry", "geometries", "coordinates", "properties",
    "features", "id", "bbox", "name">>

IsMember(m, key) == key \in DOMAIN m

KeysOf(m) == SelectSeq(KeyOrder, LAMBDA key : IsMember(m, key))

(***************************************************************************)
(* JSON texts: sequences of tokens.                                        *)
(***************************************************************************)
Tok(t) == [t |-> t]
TStr(s) == [t |-> "str", s |-> s]
TNum(n) == [t |-> "num", n |-> n]
TWs(n) == [t |-> "ws", n |-> n]

\* a line break and the indentation of a pretty-printed text
Newline(indent, depth) ==
  IF indent = 0 THEN <<>> ELSE <<TWs(indent * depth)>>

RECURSIVE Serialize(_, _, _)
RECURSIVE SerializeElements(_, _, _, _)
RECURSIVE SerializeMembers(_, _, _, _, _)

\* JSON.stringify(v, null, indent) at nesting depth
Serialize(v, indent, depth) ==
  CASE v.k = "null" -> <<Tok("null")>>
    [] v.k = "bool" -> <<Tok(IF v.b THEN "true" ELSE "false")>>
    [] v.k = "number" -> <<TNum(v.n)>>
    [] v.k = "string" -> <<TStr(v.s)>>
    [] v.k = "array" ->
         IF Len(v.a) = 0
         THEN <<Tok("["), Tok("]")>>
         ELSE <<Tok("[")>> \o SerializeElements(v.a, 1, indent, depth + 1)
                \o Newline(indent, depth) \o <<Tok("]")>>
    [] v.k = "object" ->
         IF DOMAIN v.m = {}
         THEN <<Tok("{"), Tok("}")>>
         ELSE <<Tok("{")>>
                \o SerializeMembers(v.m, KeysOf(v.m), 1, indent, depth + 1)
                \o Newline(indent, depth) \o <<Tok("}")>>

SerializeElements(a, i, indent, depth) ==
  IF i > Len(a) THEN <<>>
  ELSE Newline(indent, depth) \o Serialize(a[i], indent, depth)
         \o (IF i < Len(a) THEN <<Tok(",")>> ELSE <<>>)
         \o SerializeElements(a, i + 1, indent, depth)

SerializeMembers(m, keys, i, indent, depth) ==
  IF i > Len(keys) THEN <<>>
  ELSE Newline(indent, depth) \o <<TStr(keys[i]), Tok(":")>>
         \o (IF indent = 0 THEN <<>> ELSE <<TWs(1)>>)
         \o Serialize(m[keys[i]], indent, depth)
         \o (IF i < Len(keys) THEN <<Tok(",")>> ELSE <<>>)
         \o SerializeMembers(m, keys, i + 1, indent, depth)

\* JSON.stringify(v) and JSON.stringify(v, null, 2)
JSONstringify(v) == Serialize(v, 0, 0)
JSONstringifyPretty(v) == Serialize(v, 2, 0)

ParseFail == [ok |-> FALSE, v |-> JNull, next |-> 0]
ParseOk(v, next) == [ok |-> TRUE, v |-> v, next |-> next]

RECURSIVE SkipWs(_, _)
SkipWs(text, i) ==
  IF i <= Len(text) /\ text[i].t = "ws" THEN SkipWs(text, i + 1) ELSE i

RECURSIVE ParseValue(_, _)
RECURSIVE ParseElements(_, _, _)
RECURSIVE ParseMembers(_, _, _)

ParseValue(text, i0) ==
  LET i == SkipWs(text, i0) IN
  IF i > Len(text) THEN ParseFail
  ELSE LET tk == text[i]
           j == SkipWs(text, i + 1)
       IN CASE tk.t = "null" -> ParseOk(JNull, i + 1)
            [] tk.t = "true" -> ParseOk(JBool(TRUE), i + 1)
            [] tk.t = "false" -> ParseOk(JBool(FALSE), i + 1)
            [] tk.t = "num" -> ParseOk(JNum(tk.n), i + 1)
            [] tk.t = "str" -> ParseOk(JStr(tk.s), i + 1)
            [] tk.t = "[" ->
                 IF j <= Len(text) /\ text[j].t = "]"
                 THEN ParseOk(JArr(<<>>), j + 1)
                 ELSE ParseElements(text, i + 1, <<>>)
            [] tk.t = "{" ->
                 IF j <= Len(text) /\ text[j].t = "}"
                 THEN ParseOk(JObj(EmptyMap), j + 1)
                 ELSE ParseMembers(text, i + 1, EmptyMap)
            [] OTHER -> ParseFail

ParseElements(text, i, acc) ==
  LET r == ParseValue(text, i) IN
  IF ~r.ok THEN ParseFail
  ELSE LET j == SkipWs(text, r.next) IN
       IF j > Len(text) THEN ParseFail
       ELSE IF text[j].t = "," THEN ParseElements(text, j + 1, Append(acc, r.v))
       ELSE IF text[j].t = "]" THEN ParseOk(JArr(Append(acc, r.v)), j + 1)
       ELSE ParseFail

ParseMembers(text, i0, acc) ==
  LET i == SkipWs(text, i0)
      c == SkipWs(text, i + 1)
  IN IF i > Len(text) \/ c > Len(text) THEN ParseFail
     ELSE IF text[i].t # "str" \/ text[c].t # ":" THEN ParseFail
     ELSE LET r == ParseValue(text, c + 1) IN
          IF ~r.ok THEN ParseFail
          ELSE LET j == SkipWs(text, r.next)
                   m == WithMember(acc, text[i].s, r.v)
               IN IF j > Len(text) THEN ParseFail
                  ELSE IF text[j].t = "," THEN ParseMembers(text, j + 1, m)
                  ELSE IF text[j].t = "}" THEN ParseOk(JObj(m), j + 1)
                  ELSE ParseFail

\* JSON.parse(text): ok = FALSE stands for the SyntaxError it throws
JSONparse(text) ==
  LET r == ParseValue(text, 1) IN
  IF r.ok /\ SkipWs(text, r.next) > Len(text)
  THEN [ok |-> TRUE, v |-> r.v]
  ELSE [ok |-> FALSE, v |-> JNull]

(***************************************************************************)
(* Validation (GeoJSON): the zod schemas.  A schema maps a value to        *)
(* [ok, v]: ok = FALSE stands for the ZodError that parse throws, v is the *)
(* parsed output, in which z.object keeps only the keys of its shape.      *)
(***************************************************************************)
ZodError == [ok |-> FALSE, v |-> JNull]
ZodOk(v) == [ok |-> TRUE, v |-> v]

GeometryTypesMissingCollection ==
  {"Point", "LineString", "Polygon", "MultiPoint", "MultiLineString",
   "MultiPolygon"}

GeometryTypes ==
  {"Point", "LineString", "Polygon", "MultiPoint", "MultiLineString",
   "MultiPolygon", "GeometryCollection"}

\* the members of m that the shape of a z.object names
StripTo(m, shape) == [x \in (DOMAIN m) \cap shape |-> m[x]]

geometry(v) ==
  IF v.k # "object" THEN ZodError
  ELSE IF ~IsMember(v.m, "type") THEN ZodError
  ELSE IF v.m["type"].k # "string" THEN ZodError
  ELSE IF v.m["type"].s \notin GeometryTypes THEN ZodError
  ELSE ZodOk(JObj(StripTo(v.m, {"type", "coordinates"})))

feature(v) ==
  IF v.k # "object" THEN ZodError
  ELSE IF ~IsMember(v.m, "type") \/ ~IsMember(v.m, "geometry") THEN ZodError
  ELSE IF v.m["type"] # JStr("Feature") THEN ZodError
  ELSE IF ~geometry(v.m["geometry"]).ok THEN ZodError
  ELSE IF IsMember(v.m, "properties") /\ v.m["properties"].k # "object"
       THEN ZodError
  ELSE ZodOk(JObj(WithMember(StripTo(v.m, {"type", "properties"}),
                              "geometry", geometry(v.m["geometry"]).v)))

featureCollection(v) ==
  IF v.k # "object" THEN ZodError
  ELSE IF ~IsMember(v.m, "type") \/ ~IsMember(v.m, "features") THEN ZodError
  ELSE IF v.m["type"] # JStr("FeatureCollection") THEN ZodError
  ELSE IF v.m["features"].k # "array" THEN ZodError
  ELSE LET fs0 == v.m["features"].a IN
       IF \E i \in 1..Len(fs0) : ~feature(fs0[i]).ok THEN ZodError
       ELSE ZodOk(JObj([type |-> v.m["type"],
                        features |->
                          JArr([i \in 1..Len(fs0) |-> feature(fs0[i]).v])]))

geojsonSchema(v) ==
  IF featureCollection(v).ok THEN featureCollection(v) ELSE feature(v)

(***************************************************************************)
(* File paths: sequences of components.  A component is a directory or     *)
(* file name, a generated identifier, or a name with a suffix appended.    *)
(***************************************************************************)
Name(s) == [k |-> "name", s |-> s]
Uuid(n) == [k |-> "uuid", n |-> n]
WithSuffix(c, ext) == [k |-> "file", base |-> c, ext |-> ext]

DotDot == Name("..")

\* path.normalize: a ".." component removes the component before it
RECURSIVE Normalize(_, _)
Normalize(rest, acc) ==
  IF rest = <<>> THEN acc
  ELSE IF Head(rest) = DotDot
       THEN Normalize(Tail(rest),
                      IF acc = <<>> THEN acc ELSE SubSeq(acc, 1, Len(acc) - 1))
       ELSE Normalize(Tail(rest), Append(acc, Head(rest)))

\* path.join(dir, rel)
PathJoin(dir, rel) == Normalize(dir \o rel, <<>>)

\* `${id}.geojson`: the suffix lands on the last component of id
IdFileName(id) ==
  SubSeq(id, 1, Len(id) - 1) \o <<WithSuffix(id[Len(id)], ".geojson")>>

DATA_DIR == <<Name("srv"), Name("data")>>
UPLOAD_DIR == PathJoin(DATA_DIR, <<Name("uploads")>>)

\* the path a request for the decoded route parameter id stats and reads
GetFilePath(id) == PathJoin(UPLOAD_DIR, IdFileName(id))

UploadFilePathIgnoringId(n) == PathJoin(UPLOAD_DIR, IdFileName(<<Name("upload")>>))

\* the path an upload with generated identifier n writes
UploadFilePath(n) == PathJoin(UPLOAD_DIR, IdFileName(<<Uuid(n)>>))

(***************************************************************************)
(* Sample documents and payloads.                                          *)
(***************************************************************************)
PointGeometry ==
  JObj([type |-> JStr("Point"), coordinates |-> JArr(<<JNum(1), JNum(2)>>)])

PlainFeature ==
  JObj([type |-> JStr("Feature"), geometry |-> PointGeometry,
        properties |-> JObj([name |-> JStr("a")])])

FeatureWithId == JObj(WithMember(PlainFeature.m, "id", JStr("f1")))

CollectionGeometryFeature ==
  JObj([type |-> JStr("Feature"),
        geometry |-> JObj([type |-> JStr("GeometryCollection"),
                           geometries |-> JArr(<<PointGeometry>>)])])

EmptyCollection ==
  JObj([type |-> JStr("FeatureCollection"), features |-> JArr(<<>>)])

BareGeometry == JObj([type |-> JStr("Polygon"), coordinates |-> JArr(<<>>)])

TriangleFeature ==
  JObj([type |-> JStr("Feature"),
        geometry |-> JObj([type |-> JStr("Triangle"),
                           coordinates |-> JArr(<<>>)])])

\* the text {"type": "Feature" cut off before its closing brace
TruncatedText == SubSeq(JSONstringifyPretty(TriangleFeature), 1, 6)

ValidTexts == {JSONstringify(FeatureWithId), JSONstringify(EmptyCollection)}
InvalidTexts == {JSONstringify(BareGeometry), TruncatedText}
PayloadTexts == ValidTexts \cup InvalidTexts

(***************************************************************************)
(* Requests.                                                               *)
(***************************************************************************)
\* 10 * 1024 * 1024 bytes, the multer fileSize limit
FILE_SIZE_LIMIT == 10 * 1024 * 1024
\* "10mb" as the body parser reads it
JSON_BODY_LIMIT == 10 * 1024 * 1024

FitSizes == {FILE_SIZE_LIMIT}
OverSizes == {FILE_SIZE_LIMIT + 1}
\* the texts sent with a payload of more than the limit
OverTexts == {JSONstringify(EmptyCollection), JSONstringify(BareGeometry)}

\* file names, as sequences of characters
NameUpperJson == <<"B", ".", "J", "S", "O", "N">>
NameText == <<"n", ".", "t", "x", "t">>
NameNoDot == <<"g", "e", "o", "j", "s", "o", "n">>

\* the declared media type and the file name of the uploaded file parts
FileParts ==
  {[mimetype |-> "application/geo+json", originalname |-> NameText],
   [mimetype |-> "text/plain", originalname |-> NameUpperJson],
   [mimetype |-> "text/plain", originalname |-> NameNoDot]}

NoFile == [mimetype |-> "", originalname |-> <<>>]

\* POST /api/geojson: the content type, the file part named `file` if there
\* is one, the byte size of the payload and the payload's text
MultipartRequests ==
  [ctype : {"multipart/form-data"}, hasFile : {TRUE}, file : FileParts,
   size : FitSizes, text : PayloadTexts]
    \cup [ctype : {"multipart/form-data"}, hasFile : {TRUE}, file : FileParts,
          size : OverSizes, text : OverTexts]

JsonRequests ==
  [ctype : {"application/json"}, hasFile : {FALSE}, file : {NoFile},
   size : FitSizes, text : PayloadTexts]
    \cup [ctype : {"application/json"}, hasFile : {FALSE}, file : {NoFile},
          size : OverSizes, text : OverTexts]

OtherRequests ==
  [ctype : {"multipart/form-data", "text/plain"}, hasFile : {FALSE},
   file : {NoFile}, size : {FILE_SIZE_LIMIT},
   text : {JSONstringify(EmptyCollection)}]

PostRequests == MultipartRequests \cup JsonRequests \cup OtherRequests

\* GET /api/geojson/:id : the decoded route parameter, split at "/"
GetIds ==
  {<<Uuid(n)>> : n \in 1..MaxIds}
    \cup {<<DotDot, Name("seed")>>, <<DotDot, DotDot, Name("package")>>}

(***************************************************************************)
(* Middleware.                                                             *)
(***************************************************************************)
\* an error handed to next(err); status 0 stands for no status property
NoError == [thrown |-> FALSE, status |-> 0, message |-> ""]
HttpError(status, message) ==
  [thrown |-> TRUE, status |-> status, message |-> message]

\* the status the default error handler of express responds with
ErrorHandlerStatus(err) ==
  IF err.status >= 400 /\ err.status < 600 THEN err.status ELSE 500

\* express.json({ limit: "10mb" }): [err, body]
expressJson(req) ==
  IF req.ctype # "application/json"
  THEN [err |-> NoError, body |-> JObj(EmptyMap)]
  ELSE IF req.size > JSON_BODY_LIMIT
  THEN [err |-> HttpError(413, "request entity too large"), body |-> JNull]
  ELSE LET first == SkipWs(req.text, 1) IN
       IF Len(req.text) = 0
       THEN [err |-> NoError, body |-> JObj(EmptyMap)]
       ELSE IF first > Len(req.text) \/ req.text[first].t \notin {"{", "["}
       THEN [err |-> HttpError(400, "entity.parse.failed"), body |-> JNull]
       ELSE IF ~JSONparse(req.text).ok
       THEN [err |-> HttpError(400, "entity.parse.failed"), body |-> JNull]
       ELSE [err |-> NoError, body |-> JSONparse(req.text).v]

LowerChar(c) ==
  CASE c = "B" -> "b" [] c = "J" -> "j" [] c = "S" -> "s"
    [] c = "O" -> "o" [] c = "N" -> "n" [] OTHER -> c

toLowerCase(s) == [i \in 1..Len(s) |-> LowerChar(s[i])]

endsWith(s, suffix) ==
  /\ Len(s) >= Len(suffix)
  /\ SubSeq(s, Len(s) - Len(suffix) + 1, Len(s)) = suffix

\* the multer fileFilter
fileFilter(file) ==
  \/ file.mimetype = "application/geo+json"
  \/ file.mimetype = "application/json"
  \/ endsWith(toLowerCase(file.originalname),
              <<".", "g", "e", "o", "j", "s", "o", "n">>)
  \/ endsWith(toLowerCase(file.originalname), <<".", "j", "s", "o", "n">>)

\* upload.single("file"): [err, hasFile]; req.file is set when hasFile
uploadSingle(req) ==
  IF req.ctype # "multipart/form-data" \/ ~req.hasFile
  THEN [err |-> NoError, hasFile |-> FALSE]
  ELSE IF ~fileFilter(req.file)
  THEN [err |-> HttpError(0, "Unsupported file type"), hasFile |-> FALSE]
  ELSE IF req.size > FILE_SIZE_LIMIT
  THEN [err |-> HttpError(0, "File too large"), hasFile |-> FALSE]
  ELSE [err |-> NoError, hasFile |-> TRUE]

(***************************************************************************)
(* State.                                                                  *)
(***************************************************************************)
VARIABLES
  fs,         \* the files on disk: path |-> text
  jobs,       \* the uploads suspended in `await writeFile`
  generated,  \* the identifiers uuidv4 has returned
  issued,     \* the uploads answered with 201: identifier, document, bytes
  resp,       \* what the last step answered, and to which request
  vInput,     \* validator run: the value handed to geojsonSchema.parse
  vResult,    \* validator run: what parse returned
  apiBase,    \* viewer: import.meta.env.VITE_API_BASE
  uploaded,   \* viewer: the `uploaded` state of App
  picked,     \* viewer: what the last file selection did
  mapProps,   \* viewer: the props App renders CesiumMap with
  mapSource,  \* viewer: the source CesiumMap's load picks
  resetShown  \* viewer: whether the "Reset to API" button is rendered

serverVars == <<fs, jobs, generated, issued, resp>>
validatorVars == <<vInput, vResult>>
viewerVars == <<apiBase, uploaded, picked, mapProps, mapSource, resetShown>>
vars == <<serverVars, validatorVars, viewerVars>>

NoResponse == [op |-> "none"]

\* status 0: the handler is suspended and has not answered yet
Response(op, req, status, error, bytes) ==
  [op |-> op, req |-> req, status |-> status, error |-> error, bytes |-> bytes]

(***************************************************************************)
(* POST /api/geojson                                                       *)
(***************************************************************************)
\* the handler up to `// Persist`: status 0 when the document is validated
uploadHandler(req, body, hasFile) ==
  IF ~hasFile /\ req.ctype # "application/json"
  THEN [status |-> 400,
        error |-> "Send as multipart field file OR application/json",
        doc |-> JNull, validated |-> JNull]
  ELSE LET rawText == IF hasFile THEN req.text ELSE JSONstringify(body)
           parsed == JSONparse(rawText)
       IN IF ~parsed.ok
          THEN [status |-> 400, error |-> "Invalid JSON",
                doc |-> JNull, validated |-> JNull]
          ELSE IF ~geojsonSchema(parsed.v).ok
          THEN [status |-> 400, error |-> "Invalid GeoJSON",
                doc |-> parsed.v, validated |-> JNull]
          ELSE [status |-> 0, error |-> "",
                doc |-> parsed.v, validated |-> geojsonSchema(parsed.v).v]

\* the middleware chain and the handler: express.json, upload.single, handler
uploadRoute(req) ==
  LET j == expressJson(req)
      m == uploadSingle(req)
  IN IF j.err.thrown
     THEN [status |-> ErrorHandlerStatus(j.err), error |-> j.err.message,
           doc |-> JNull, validated |-> JNull]
     ELSE IF m.err.thrown
     THEN [status |-> ErrorHandlerStatus(m.err), error |-> m.err.message,
           doc |-> JNull, validated |-> JNull]
     ELSE uploadHandler(req, j.body, m.hasFile)

\* uuidv4(): a token that was not handed out before
uuidv4 == (1..MaxIds) \ generated

\* A POST request runs to its response, or to `await writeFile`.
Upload(req) ==
  LET o == uploadRoute(req) IN
  /\ UNCHANGED <<fs, issued, validatorVars, viewerVars>>
  /\ IF o.status # 0
     THEN /\ resp' = Response("POST", req, o.status, o.error, <<>>)
          /\ UNCHANGED <<jobs, generated>>
     ELSE \E id \in uuidv4 :
            /\ generated' = generated \cup {id}
            /\ jobs' = jobs \cup
                 {[id |-> id, filePath |-> UploadFilePath(id),
                   doc |-> o.doc, pretty |-> JSONstringifyPretty(o.validated),
                   written |-> -1]}
            /\ resp' = Response("POST", req, 0, "", <<>>)

\* writeFile opens the file with flag "w": it is created, or emptied
WriteOpen(job) ==
  /\ job.written = -1
  /\ fs' = [p \in (DOMAIN fs) \cup {job.filePath} |->
              IF p = job.filePath THEN <<>> ELSE fs[p]]
  /\ jobs' = (jobs \ {job}) \cup {[job EXCEPT !.written = 0]}
  /\ resp' = NoResponse
  /\ UNCHANGED <<generated, issued, validatorVars, viewerVars>>

Min(a, b) == IF a < b THEN a ELSE b

\* writeFile writes the next part of the text at its position in the file
WriteChunk(job) ==
  /\ job.written >= 0
  /\ job.written < Len(job.pretty)
  /\ job.filePath \in DOMAIN fs
  /\ LET upto == Min(Len(job.pretty), job.written + ChunkLen) IN
     /\ fs' = [fs EXCEPT ![job.filePath] =
                 SubSeq(@, 1, Min(Len(@), job.written))
                   \o SubSeq(job.pretty, job.written + 1, upto)]
     /\ jobs' = (jobs \ {job}) \cup {[job EXCEPT !.written = upto]}
  /\ resp' = NoResponse
  /\ UNCHANGED <<generated, issued, validatorVars, viewerVars>>

\* writeFile rejects (disk full, permission denied): the catch block answers
WriteFail(job) ==
  /\ job.written < Len(job.pretty)
  /\ jobs' = jobs \ {job}
  /\ resp' = Response("PERSIST", [id |-> job.id, doc |-> job.doc], 500,
                      "Internal error", <<>>)
  /\ UNCHANGED <<fs, generated, issued, validatorVars, viewerVars>>

\* writeFile resolves: the handler answers 201 { id, url, bytes }
WriteDone(job) ==
  /\ job.written = Len(job.pretty)
  /\ jobs' = jobs \ {job}
  /\ issued' = issued \cup
       {[id |-> job.id, doc |-> job.doc, pretty |-> job.pretty]}
  /\ resp' = Response("PERSIST", [id |-> job.id, doc |-> job.doc], 201, "",
                      <<>>)
  /\ UNCHANGED <<fs, generated, validatorVars, viewerVars>>

(***************************************************************************)
(* GET /api/geojson/:id                                                    *)
(***************************************************************************)
Get(id) ==
  LET filePath == GetFilePath(id) IN
  /\ resp' =
       IF filePath \in DOMAIN fs
       THEN Response("GET", [id |-> id, accessed |-> {filePath}], 200, "",
                     fs[filePath])
       ELSE Response("GET", [id |-> id, accessed |-> {filePath}], 404,
                     "Not found", <<>>)
  /\ UNCHANGED <<fs, jobs, generated, issued, validatorVars, viewerVars>>

(***************************************************************************)
(* The validator on its own: geojsonSchema.parse applied to one value.     *)
(***************************************************************************)
\* the object m, with member key set to val unless val is absent
Opt(m, key, val) == IF val = Undefined THEN m ELSE WithMember(m, key, val)

GeometryTypeInputs ==
  {JStr(t) : t \in {"Point", "LineString", "Polygon", "MultiPoint",
                    "MultiLineString", "MultiPolygon", "GeometryCollection",
                    "Triangle", "point"}}
    \cup {Undefined, JNum(1)}

CoordinateInputs == {Undefined, JNull, JArr(<<JNum(1), JNum(2)>>)}

GeometryInputs ==
  {JObj(Opt(Opt(Opt(EmptyMap, "type", t), "coordinates", c), "geometries", g)) :
     t \in GeometryTypeInputs, c \in CoordinateInputs,
     g \in {Undefined, JArr(<<>>)}}
    \cup {Undefined, JNull, JStr("Point"), JArr(<<>>)}

PropertiesInputs ==
  {Undefined, JNull, JObj(EmptyMap), JObj([name |-> JStr("a")]), JArr(<<>>),
   JStr("x")}

FeatureInputs ==
  {JObj(Opt(Opt(Opt(Opt(EmptyMap, "type", t), "geometry", g),
                "properties", p), "id", i)) :
     t \in {Undefined, JStr("Feature"), JStr("FeatureCollection"),
            JStr("Polygon")},
     g \in GeometryInputs, p \in PropertiesInputs,
     i \in {Undefined, JStr("f1")}}

ElementInputs ==
  {PlainFeature, FeatureWithId, CollectionGeometryFeature, TriangleFeature,
   BareGeometry, JNull}

FeaturesInputs ==
  {Undefined, JNull, JObj(EmptyMap)}
    \cup {JArr(a) : a \in UNION {[1..n -> ElementInputs] : n \in 0..MaxFeatures}}

CollectionInputs ==
  {JObj(Opt(Opt(Opt(EmptyMap, "type", t), "features", f), "bbox", b)) :
     t \in {Undefined, JStr("FeatureCollection"), JStr("Feature")},
     f \in FeaturesInputs,
     b \in {Undefined, JArr(<<JNum(0), JNum(0), JNum(1), JNum(1)>>)}}

JsonInputs ==
  FeatureInputs \cup CollectionInputs
    \cup {JNull, JNum(0), JBool(TRUE), JStr("Feature"), JArr(<<PlainFeature>>)}

NotRun == [run |-> FALSE, ok |-> FALSE, v |-> JNull]

ValidatorIdle ==
  /\ vInput = JNull
  /\ vResult = NotRun

\* const validated = geojsonSchema.parse(parsed)
Validate ==
  /\ ~vResult.run
  /\ vResult' = [run |-> TRUE, ok |-> geojsonSchema(vInput).ok,
                 v |-> geojsonSchema(vInput).v]
  /\ UNCHANGED <<vInput, serverVars, viewerVars>>

(***************************************************************************)
(* The viewer: GeoJsonUploader, App and the source CesiumMap loads.        *)
(***************************************************************************)
\* JavaScript truthiness
Truthy(v) ==
  CASE v.k = "undefined" -> FALSE
    [] v.k = "null" -> FALSE
    [] v.k = "bool" -> v.b
    [] v.k = "number" -> v.n # 0
    [] v.k = "string" -> v.s # ""
    [] OTHER -> TRUE

\* typeof v === "object"
TypeofObject(v) == v.k \in {"null", "array", "object"}

\* v.type, for a v that is neither null nor undefined
TypeOf(v) ==
  IF v.k = "object" /\ IsMember(v.m, "type") THEN v.m["type"] ELSE Undefined

\* a ?? b
Nullish(a, b) == IF a.k \in {"null", "undefined"} THEN b ELSE a

isFeatureOrFCUnchecked(json) == TRUE

\* the minimal runtime validation of GeoJsonUploader
isFeatureOrFC(json) ==
  /\ Truthy(json)
  /\ TypeofObject(json)
  /\ (TypeOf(json) = JStr("FeatureCollection") \/ TypeOf(json) = JStr("Feature"))

\* maxSizeMB, in bytes
MAX_SIZE_BYTES == 10 * 1024 * 1024

TypeOnlyFeature == JObj([type |-> JStr("Feature")])

CollectionOfOne ==
  JObj([type |-> JStr("FeatureCollection"), features |-> JArr(<<PlainFeature>>)])

PickedTexts ==
  {JSONstringify(v) :
     v \in {PlainFeature, FeatureWithId, CollectionGeometryFeature,
            EmptyCollection, CollectionOfOne, TriangleFeature, TypeOnlyFeature,
            BareGeometry, JNull, JNum(0), JStr(""), JBool(FALSE), JArr(<<>>),
            JObj(EmptyMap)}}
    \cup {JSONstringifyPretty(CollectionOfOne), TruncatedText}

PickedFiles ==
  [size : {MAX_SIZE_BYTES}, text : PickedTexts]
    \cup [size : {MAX_SIZE_BYTES + 1}, text : {JSONstringify(PlainFeature)}]

ApiBases == {Undefined, JStr(""), JStr("http://localhost:4000"), JStr("/geo")}

\* what App renders from its state: the props of CesiumMap and the button
Render(base, up) ==
  [geojson |-> Nullish(up, Undefined),
   geojsonUrl |-> IF ~Truthy(up) /\ Truthy(base)
                  THEN JStr(base.s \o "/api/geojson") ELSE Undefined]

\* const source = geojsonUrl ?? geojson, in CesiumMap's load
LoadSource(props) == Nullish(props.geojsonUrl, props.geojson)

\* setUploaded(up), the render that follows and the effect of CesiumMap
SetUploaded(up) ==
  /\ uploaded' = up
  /\ mapProps' = Render(apiBase, up)
  /\ mapSource' = LoadSource(Render(apiBase, up))
  /\ resetShown' = Truthy(up)

ViewerIdle ==
  /\ apiBase = Undefined
  /\ uploaded = JNull
  /\ picked = "none"
  /\ mapProps = Render(Undefined, JNull)
  /\ mapSource = LoadSource(Render(Undefined, JNull))
  /\ resetShown = FALSE

ViewerInit ==
  /\ apiBase \in ApiBases
  /\ uploaded = JNull
  /\ picked = "none"
  /\ mapProps = Render(apiBase, JNull)
  /\ mapSource = LoadSource(Render(apiBase, JNull))
  /\ resetShown = Truthy(JNull)

\* handleChange of GeoJsonUploader, for a selected file
PickFile(file) ==
  /\ UNCHANGED <<apiBase, serverVars, validatorVars>>
  /\ IF file.size > MAX_SIZE_BYTES
     THEN /\ picked' = "too large"
          /\ UNCHANGED <<uploaded, mapProps, mapSource, resetShown>>
     ELSE IF ~JSONparse(file.text).ok
     THEN /\ picked' = "parse error"
          /\ UNCHANGED <<uploaded, mapProps, mapSource, resetShown>>
     ELSE IF ~isFeatureOrFC(JSONparse(file.text).v)
     THEN /\ picked' = "not GeoJSON"
          /\ UNCHANGED <<uploaded, mapProps, mapSource, resetShown>>
     ELSE /\ picked' = "loaded"
          /\ SetUploaded(JSONparse(file.text).v)

\* clearUpload, the onClick of the "Reset to API" button
ClearUpload ==
  /\ resetShown
  /\ SetUploaded(JNull)
  /\ UNCHANGED <<apiBase, picked, serverVars, validatorVars>>

(***************************************************************************)
(* The upload API.                                                         *)
(***************************************************************************)
ServerIdle ==
  /\ fs = [p \in {} |-> <<>>]
  /\ jobs = {}
  /\ generated = {}
  /\ issued = {}
  /\ resp = NoResponse

Init == ServerIdle /\ ValidatorIdle /\ ViewerIdle

Next ==
  \/ \E req \in PostRequests : Upload(req)
  \/ \E job \in jobs : WriteOpen(job)
  \/ \E job \in jobs : WriteChunk(job)
  \/ \E job \in jobs : WriteFail(job)
  \/ \E job \in jobs : WriteDone(job)
  \/ \E id \in GetIds : Get(id)

Spec == Init /\ [][Next]_vars

InitValidator ==
  /\ ServerIdle
  /\ ViewerIdle
  /\ vInput \in JsonInputs
  /\ vResult = NotRun

NextValidator == Validate

SpecValidator == InitValidator /\ [][NextValidator]_vars

InitViewer == ServerIdle /\ ValidatorIdle /\ ViewerInit

NextViewer ==
  \/ \E file \in PickedFiles : PickFile(file)
  \/ ClearUpload

SpecViewer == InitViewer /\ [][NextViewer]_vars

(***************************************************************************)
(* Properties.                                                             *)
(***************************************************************************)
\* the record of the completed upload that was answered with identifier id
IssuedFor(id) == {r \in issued : id = <<Uuid(r.id)>>}

\* a route parameter that has the form of a generated token
IsToken(id) == Len(id) = 1 /\ id[1].k = "uuid"

\* a path below the storage root
InsideRoot(filePath) ==
  /\ Len(filePath) > Len(UPLOAD_DIR)
  /\ SubSeq(filePath, 1, Len(UPLOAD_DIR)) = UPLOAD_DIR

\* the statuses of an input error
InputErrorStatus == {400, 413}

\* the accepted document shapes, as the specification words them
IsGeometryShape(g) ==
  /\ g.k = "object"
  /\ IsMember(g.m, "type")
  /\ \E t \in {"Point", "LineString", "Polygon", "MultiPoint",
               "MultiLineString", "MultiPolygon", "GeometryCollection"} :
       g.m["type"] = JStr(t)

IsFeatureShape(v) ==
  /\ v.k = "object"
  /\ IsMember(v.m, "type") /\ v.m["type"] = JStr("Feature")
  /\ IsMember(v.m, "geometry") /\ IsGeometryShape(v.m["geometry"])
  /\ IsMember(v.m, "properties") => v.m["properties"].k = "object"

IsCollectionShape(v) ==
  /\ v.k = "object"
  /\ IsMember(v.m, "type") /\ v.m["type"] = JStr("FeatureCollection")
  /\ IsMember(v.m, "features") /\ v.m["features"].k = "array"
  /\ \A i \in 1..Len(v.m["features"].a) : IsFeatureShape(v.m["features"].a[i])

IsDocumentShape(v) == IsFeatureShape(v) \/ IsCollectionShape(v)

\* an upload on the multipart path or on the JSON-body path
IsUploadPath(r) ==
  /\ r.op = "POST"
  /\ \/ r.req.ctype = "multipart/form-data" /\ r.req.hasFile
     \/ r.req.ctype = "application/json"

\* C1: a GET of an issued identifier answers bytes that parse to a value
\* equal to the document that was uploaded under it.
C1_RoundTrip ==
  (resp.op = "GET" /\ IssuedFor(resp.req.id) # {}) =>
     /\ resp.status = 200
     /\ JSONparse(resp.bytes).ok
     /\ \A r \in IssuedFor(resp.req.id) : JSONparse(resp.bytes).v = r.doc

\* C2: the validator accepts a value if and only if it is a Feature with a
\* geometry of one of the seven types and properties absent or a mapping, or
\* a FeatureCollection whose features are all such Features.
C2_ValidatorAcceptsExactlyDocuments ==
  vResult.run => (vResult.ok <=> IsDocumentShape(vInput))

C2_Witness ==
  /\ vResult.run /\ vResult.ok
  /\ IsCollectionShape(vInput)
  /\ Len(vInput.m["features"].a) = 2
  /\ vInput.m["features"].a[2] = CollectionGeometryFeature

\* C3: an upload whose payload does not decode or does not validate is
\* answered with an input error, and its step changes no file and starts no
\* write.
C3_InvalidPayloadRejected ==
  [][(IsUploadPath(resp') /\ (~JSONparse(resp'.req.text).ok
                              \/ ~IsDocumentShape(JSONparse(resp'.req.text).v)))
       => (resp'.status \in InputErrorStatus /\ fs' = fs /\ jobs' = jobs)]_vars

\* C4: no GET answers a text that is cut short, and after a write failed no
\* file is left under its identifier.
C4_AtomicWrites ==
  /\ (resp.op = "GET" /\ resp.status = 200) => JSONparse(resp.bytes).ok
  /\ (resp.op = "PERSIST" /\ resp.status = 500) =>
        GetFilePath(<<Uuid(resp.req.id)>>) \notin DOMAIN fs

\* C5: a GET whose identifier is not a generated token touches no file, and no
\* GET touches a path outside the storage root.
C5_IdentifierValidated ==
  resp.op = "GET" =>
     /\ ~IsToken(resp.req.id) => resp.req.accessed = {}
     /\ \A filePath \in resp.req.accessed : InsideRoot(filePath)

\* C6: issued identifiers are pairwise distinct, no write targets the file of
\* an issued identifier, the bytes under an issued identifier stay those its
\* upload wrote, and a GET of it answers exactly those bytes.
C6_IdentifiersImmutable ==
  /\ \A a, b \in issued : a.id = b.id => a = b
  /\ \A r \in issued : \A job \in jobs :
        job.id # r.id /\ job.filePath # GetFilePath(<<Uuid(r.id)>>)
  /\ \A r \in issued :
        /\ GetFilePath(<<Uuid(r.id)>>) \in DOMAIN fs
        /\ fs[GetFilePath(<<Uuid(r.id)>>)] = r.pretty
        /\ JSONparse(r.pretty).ok
  /\ resp.op = "GET" =>
        \A r \in IssuedFor(resp.req.id) :
           resp.status = 200 /\ resp.bytes = r.pretty

C6_Witness ==
  /\ Cardinality(issued) >= 2
  /\ \E a, b \in issued : a.doc # b.doc
  /\ resp.op = "GET" /\ IssuedFor(resp.req.id) # {}

\* the file part has an accepted media type or an accepted file name suffix
IsAcceptedFileType(file) ==
  \/ file.mimetype \in {"application/geo+json", "application/json"}
  \/ \E suffix \in {<<".", "g", "e", "o", "j", "s", "o", "n">>,
                    <<".", "j", "s", "o", "n">>} :
       endsWith(toLowerCase(file.originalname), suffix)

\* C7: a multipart upload of a file of no accepted type is answered 400, and
\* its step changes no file and starts no write.
C7_FileTypeRejectedAsInputError ==
  [][(resp'.op = "POST" /\ resp'.req.hasFile
        /\ ~IsAcceptedFileType(resp'.req.file))
       => (resp'.status = 400 /\ fs' = fs /\ jobs' = jobs)]_vars

\* C8: an upload of more than 10 MiB is answered 400 or 413, and its step
\* changes no file and starts no write.
C8_OversizeRejectedAsInputError ==
  [][(IsUploadPath(resp') /\ resp'.req.size > 10 * 1024 * 1024)
       => (resp'.status \in InputErrorStatus /\ fs' = fs /\ jobs' = jobs)]_vars

\* C9: a GET of an identifier that no completed upload was answered with is
\* answered 404 "Not found".
C9_NeverIssuedIsNotFound ==
  (resp.op = "GET" /\ IssuedFor(resp.req.id) = {}) =>
     (resp.status = 404 /\ resp.error = "Not found")

\* C10: the map never gets both a geojson object and a geojsonUrl; while an
\* upload is held it gets that object, no URL, loads the object, and the reset
\* button is shown; otherwise it gets no object, the button is hidden, and
\* with an API base configured it gets and loads the API URL.
C10_MapSourceExclusive ==
  /\ ~(mapProps.geojson # Undefined /\ mapProps.geojsonUrl # Undefined)
  /\ uploaded # JNull =>
        /\ mapProps.geojson = uploaded
        /\ mapProps.geojsonUrl = Undefined
        /\ mapSource = uploaded
        /\ resetShown
  /\ uploaded = JNull =>
        /\ mapProps.geojson = Undefined
        /\ ~resetShown
        /\ (apiBase.k = "string" /\ apiBase.s # "") =>
              /\ mapProps.geojsonUrl = JStr(apiBase.s \o "/api/geojson")
              /\ mapSource = mapProps.geojsonUrl

C10_Witness ==
  /\ apiBase = JStr("http://localhost:4000")
  /\ picked = "not GeoJSON"
  /\ uploaded = FeatureWithId
  /\ mapSource = FeatureWithId

====
